---- MODULE Spec2Model ----
(***************************************************************************)
(* Model of Terminator (src/terminator.py): the terminator curve of the    *)
(* Earth and its antimeridian-aware assembly into edges and polygons       *)
(* (Terminator.calc_polygons).                                             *)
(*                                                                         *)
(* A coordinate is a record [lon, lat] in thousandths of a degree (180000   *)
(* is 180 degrees).  The NumPy pair (longitudes, latitudes) of parallel    *)
(* arrays is a sequence of such records.  Refractions and the sub-solar    *)
(* latitude, of which only the sign is read, are in whole degrees.         *)
(* Array indices are the 0-based indices of the Python code.               *)
(***************************************************************************)
EXTENDS Integers, Sequences, FiniteSets

\* Largest number of points of a terminator curve.
MaxLen == 4

\* Sample coordinates of terminator points.  _sort returns longitudes in
\* [-180, 180]: 180 itself comes out of the float rounding of
\* (lon + 180) % 360 - 180 for a lon just below -180.
Points ==
    { [lon |-> -180000, lat |->  50000], [lon |->  180000, lat |-> -60000],
      [lon |-> -179999, lat |->  50000], [lon |->  -90000, lat |-> -60000],
      [lon |->   90000, lat |-> -60000], [lon |->  170000, lat |->  50000] }

\* Refraction angles: negative (inverted), zero, positive.
Refractions == {-6, 0, 6}

\* Sub-solar latitudes: southern, equator, northern.
SolarLats == {-23, 0, 23}

\* All curves of at most MaxLen points (the empty curve included: both
\* samplers may return no point).
Curves == UNION { [1..n -> Points] : n \in 0..MaxLen }

VARIABLES
    terminator,     \* self.terminator: the UNCLOSED sorted curve
    refraction,     \* self.refraction
    solar_lat,      \* self.solar_lat
    has_polygons,   \* hasattr(self, 'polygons') (and 'edges')
    edges,          \* self.edges
    polygons,       \* self.polygons
    pc,             \* "ctor": __init__ before line 67; "ready": constructed;
                    \* "failed": __init__ raised
    outcome,        \* of the last call: "none", "returned", or the name of
                    \* the exception it raised
    date,           \* self.date (NoDate before it is first assigned)
    delta,          \* self.delta, in whole degrees
    solar_lon,      \* self.solar_lon
    ephem,          \* solar_position: alpha_sun, theta_GMST, delta_sun
    samples,        \* set_date: the output of the two samplers
    angles,         \* _sort: angles[order], the angles of the sorted points
    tie,            \* the order argsort leaves equal keys in
    clock,          \* what datetime.utcnow() returns
    kept,           \* the arguments and the result of one earlier
                    \* construction, or nothing
    call,           \* the last call made: its name and its arguments
    writes,         \* assignments to delta and refraction since __init__
    grid,           \* the samplers' raw arrays, before any filter
    parameters,     \* processAlgorithm: the parameters it was run with
    event,          \* processAlgorithm: i, the loop's position
    sinks,          \* processAlgorithm: the features added to each sink
    results,        \* processAlgorithm: r, the returned dictionary
    ephem_file,     \* Settings.ephem_file
    eph,            \* Settings.eph: the cached ephemeris, or nothing
    qset,           \* QgsSettings' /EarthSunMoon/EphemFile
    files,          \* the .bsp files of the ephemeris directory
    mapTool,        \* canvas.mapTool()
    savedMapTool,   \* SolarInfoDialog.savedMapTool
    checked,        \* coordCaptureButton.isChecked()
    visible,        \* the dock widget is shown
    cur_location    \* SolarInfoDialog.cur_location

\* The state of the plugin around the Terminator object: the samplers'
\* arrays, the processing algorithm, the settings and the dialog.
host == <<grid, parameters, event, sinks, results, ephem_file, eph, qset,
         files, mapTool, savedMapTool, checked, visible, cur_location>>

\* The attributes and inputs the assembly of the polygons does not read.
rest == <<date, delta, solar_lon, ephem, samples, angles, tie, clock, kept,
         call, writes, host>>

vars == <<terminator, refraction, solar_lat, has_polygons, edges, polygons,
          pc, outcome, rest>>

\* A datetime: its wall-clock reading (1, 2: two readings a day sees),
\* whether it carries a tzinfo, and its UTC offset in the same unit.
\* NoDate is None as an argument and the missing attribute.
Naive(w) == [wall |-> w, aware |-> FALSE, off |-> 0]
Aware(w, o) == [wall |-> w, aware |-> TRUE, off |-> o]
NoDate == Naive(0)

\* Before any call.
NoCall ==
    [op |-> "none", date |-> NoDate, delta |-> 0, refraction |-> 0,
     calculate_polygons |-> FALSE, was |-> NoDate]

----------------------------------------------------------------------------
\* Helpers for 0-based arrays.

Abs(x) == IF x < 0 THEN -x ELSE x

\* a[i] for a 0-based index i
At(a, i) == a[i + 1]

\* a[lo:hi]
Slice(a, lo, hi) == SubSeq(a, lo + 1, hi)

\* np.insert(a, i, p)
Insert(a, i, p) == Slice(a, 0, i) \o <<p>> \o Slice(a, i, Len(a))

\* a[::-1]
Reverse(a) == [i \in 1..Len(a) |-> a[Len(a) + 1 - i]]

\* (lon + 180) % 360 - 180
Norm(x) == ((x + 180000) % 360000) - 180000

Pt(x, y) == [lon |-> x, lat |-> y]

----------------------------------------------------------------------------
\* Terminator.calc_polygons, step by step.

\* Lines 225-226: close the curve (append its first point) and bring all
\* longitudes into [-180, 180).  Only called on a non-empty curve.
close_curve(t) ==
    LET c == Append(t, t[1])
    IN  [i \in 1..Len(c) |-> Pt(Norm(c[i].lon), c[i].lat)]

\* Ascending sequence of the elements of a finite set of integers
\* (np.where returns ascending indices).
RECURSIVE Ascending(_)
Ascending(S) ==
    IF S = {} THEN <<>>
    ELSE LET m == CHOOSE x \in S : \A y \in S : x <= y
         IN  <<m>> \o Ascending(S \ {m})

\* Line 228: 0-based indices i with |lon[i-1] - lon[i]| > 180.
get_transitions(c) ==
    Ascending({ i \in 1..(Len(c) - 1) :
                  Abs(At(c, i - 1).lon - At(c, i).lon) > 180000 })

\* np.isclose(a, b) with its default rtol = 1e-05 and atol = 1e-08:
\* |a - b| <= atol + rtol * |b|.  In units of 1e-8 degree that is
\* |a - b| * 100000 <= 1 + |b|; |a - b| is a whole number of thousandths.
isclose(a, b) == Abs(a - b) <= (1 + Abs(b)) \div 100000

\* The insertion without its second test (lines 247-249).
insert_180_before_only(c, transition) ==
    IF isclose(At(c, transition - 1).lon, -180000)
    THEN Insert(c, transition, Pt(180000, At(c, transition - 1).lat))
    ELSE c

\* Lines 244-249: body of the insertion loop for one transition.
insert_180(c, transition) ==
    LET c1 == IF isclose(At(c, transition - 1).lon, -180000)
              THEN Insert(c, transition, Pt(180000, At(c, transition - 1).lat))
              ELSE c
    IN  IF isclose(At(c1, transition).lon, -180000)
        THEN Insert(c1, transition, Pt(180000, At(c1, transition).lat))
        ELSE c1

\* Line 243: the loop over transitions[::-1] (ts is already reversed).
RECURSIVE insert_loop(_, _)
insert_loop(c, ts) ==
    IF ts = <<>> THEN c
    ELSE insert_loop(insert_180(c, Head(ts)), Tail(ts))

\* A mutant of remove_duplicated: the closing point is kept.
remove_duplicated_kept(c) == c

\* Line 251: lon[:-1], lat[:-1].
remove_duplicated(c) == Slice(c, 0, Len(c) - 1)

\* Lines 253-254: lon.argsort() and the reordering.  The default sort of
\* argsort is not stable: points of equal longitude come out in any order.
\* The set of all orders the sort may produce.
RECURSIVE sorted_from(_, _)
sorted_from(c, rem) ==
    IF rem = {} THEN { <<>> }
    ELSE LET m == CHOOSE i \in rem : \A j \in rem : c[i].lon <= c[j].lon
             cands == { i \in rem : c[i].lon = c[m].lon }
         IN  UNION { { <<c[i]>> \o s : s \in sorted_from(c, rem \ {i}) }
                     : i \in cands }

argsort(c) == sorted_from(c, 1..Len(c))

\* A mutant of y_level: the comparison reads the other way.
y_level_flipped(slat) == -90000 + 180000 * (IF slat > 0 THEN 1 ELSE 0)

\* Line 256: -90 + 180*(self.solar_lat <= 0).
y_level(slat) == -90000 + 180000 * (IF slat <= 0 THEN 1 ELSE 0)

\* Line 257: the polygon of the one-transition case, before closing.
pole_polygon(sorted, slat) ==
    sorted \o << Pt(180000, y_level(slat)), Pt(-180000, y_level(slat)) >>

\* A mutant of first_arc: the slice starts one point early.
first_arc_early(open, ts) == Slice(open, ts[1] - 1, ts[2])

\* Line 259: lon[transitions[0]:transitions[1]].
first_arc(open, ts) == Slice(open, ts[1], ts[2])

\* Line 260 without its second operand: the head of the curve is lost.
second_arc_tail_only(open, ts) == Slice(open, ts[2], Len(open))

\* Line 260: lon[transitions[1]:] followed by lon[:transitions[0]].
second_arc(open, ts) ==
    Slice(open, ts[2], Len(open)) \o Slice(open, 0, ts[1])

\* A mutant of western_first: the polygons are never swapped.
western_first_never(polys) == polys

\* Line 263: put the western polygon first.
western_first(polys) ==
    IF polys[1][1].lon > 0 THEN Reverse(polys) ELSE polys

\* Lines 264-266: one ring out of the two arcs and the four corners.
invert_two(polys) ==
    << polys[1] \o << Pt(-180000, -90000), Pt(180000, -90000) >>
       \o polys[2] \o << Pt(180000, 90000), Pt(-180000, 90000) >> >>

\* Lines 268-269: close each polygon again.
close_polygons(polys) ==
    [i \in 1..Len(polys) |-> Append(polys[i], polys[i][1])]

\* A mutant of zero_polygon: refraction = 0 inverts too.
zero_polygon_le(ring, refr) ==
    IF refr <= 0
    THEN Reverse(ring) \o << Pt(180000, 90000), Pt(180000, -90000), Pt(-180000, -90000),
                             Pt(-180000, 90000), Pt(180000, 90000) >>
    ELSE ring

\* Lines 235-238: the polygon of the zero-transition case.
zero_polygon(ring, refr) ==
    IF refr < 0
    THEN Reverse(ring) \o << Pt(180000, 90000), Pt(180000, -90000), Pt(-180000, -90000),
                             Pt(-180000, 90000), Pt(180000, 90000) >>
    ELSE ring

\* Lines 241-269: one or more transitions.  The set of results
\* [edges, polygons] the call may leave (one per order of the sort).
with_transitions(c, refr, slat) ==
    LET ins  == insert_loop(c, Reverse(get_transitions(c)))
        ts   == get_transitions(ins)
        open == remove_duplicated(ins)
    IN  IF Len(ts) = 1
        THEN { [edges |-> <<s>>,
                polygons |-> close_polygons(<<pole_polygon(s, slat)>>)]
               : s \in argsort(open) }
        ELSE IF Len(ts) = 2
        THEN LET arcs == << first_arc(open, ts), second_arc(open, ts) >>
             IN  { [edges |-> arcs,
                    polygons |->
                        close_polygons(
                            IF refr < 0 THEN invert_two(western_first(arcs))
                            ELSE arcs)] }
        ELSE { [edges |-> <<>>, polygons |-> <<>>] }

\* Lines 223-269: the results of calc_polygons on a non-empty curve.
calc_results(t, refr, slat) ==
    LET c == close_curve(t)
    IN  IF Len(get_transitions(c)) = 0
        THEN { [edges |-> <<c>>, polygons |-> <<zero_polygon(c, refr)>>] }
        ELSE with_transitions(c, refr, slat)

----------------------------------------------------------------------------
\* The object.

TypeOK ==
    /\ terminator \in Curves
    /\ refraction \in Refractions
    /\ solar_lat \in SolarLats
    /\ has_polygons \in BOOLEAN
    /\ pc \in {"ctor", "ready", "failed"}
    /\ outcome \in {"none", "returned", "IndexError"}

\* The half of the map a longitude lies in, as calc_polygons sees it after
\* normalising: -180 counts as western.
Side(x) == IF Norm(x) < 0 THEN "W" ELSE "E"

\* Number of places where the closed curve passes from one half of the map
\* to the other.
SideChanges(t) ==
    Cardinality({ i \in 1..Len(t) :
                    Side(t[i].lon) # Side(t[(i % Len(t)) + 1].lon) })

\* _sort orders the samples by their angle about the axis of the sun; the
\* samples lie on a circle about that axis, so the sorted curve is one
\* revolution of a circle and changes between the halves of the map at
\* most twice.
OneRevolution(t) == SideChanges(t) <= 2

\* No raw array has been drawn for the samplers.
GridIdle == grid = <<>>

\* processAlgorithm has not been called.
AlgorithmIdle ==
    parameters = <<>> /\ event = 0 /\ sinks = <<>> /\ results = {}

\* No Settings object exists.
SettingsIdle == ephem_file = "" /\ eph = "" /\ qset = "" /\ files = {}

\* No dialog exists.
DialogIdle ==
    /\ mapTool = "" /\ savedMapTool = "" /\ checked = FALSE
    /\ visible = FALSE /\ cur_location = ""

\* Nothing of the plugin around the object has run.
HostIdle == GridIdle /\ AlgorithmIdle /\ SettingsIdle /\ DialogIdle

\* __init__ up to line 66: the arguments are stored and set_date has
\* computed the sub-solar point and the terminator.
Constructed(curves) ==
    /\ terminator \in curves
    /\ refraction \in Refractions
    /\ solar_lat \in SolarLats
    /\ has_polygons = FALSE
    /\ edges = <<>>
    /\ polygons = <<>>
    /\ pc = "ctor"
    /\ outcome = "none"
    /\ date = NoDate /\ delta = 1 /\ solar_lon = 0
    /\ ephem = <<>> /\ samples = <<>> /\ angles = <<>>
    /\ tie = "kept" /\ clock = 1 /\ kept = <<>> /\ call = NoCall
    /\ writes = 0
    /\ HostIdle

Init == Constructed({ t \in Curves : OneRevolution(t) })

\* The same with any sequence of points as terminator: what calc_polygons,
\* a public method reading the attribute, can be run on.
InitAnyCurve == Constructed(Curves)

\* The body of calc_polygons: lon[0] of an empty curve raises IndexError at
\* line 225, before line 230 assigns the two lists.
CalcBody ==
    IF terminator = <<>>
    THEN /\ outcome' = "IndexError"
         /\ UNCHANGED <<has_polygons, edges, polygons>>
    ELSE \E r \in calc_results(terminator, refraction, solar_lat) :
            /\ edges' = r.edges
            /\ polygons' = r.polygons
            /\ has_polygons' = TRUE
            /\ outcome' = "returned"

\* __init__ line 67: if calculate_polygons: self.calc_polygons().
Construct ==
    /\ pc = "ctor"
    /\ \E calculate_polygons \in BOOLEAN :
          IF calculate_polygons
          THEN /\ CalcBody
               /\ pc' = IF terminator = <<>> THEN "failed" ELSE "ready"
          ELSE /\ pc' = "ready"
               /\ UNCHANGED <<has_polygons, edges, polygons, outcome>>
    /\ UNCHANGED <<terminator, refraction, solar_lat, rest>>

\* A call of calc_polygons() on the constructed object.
calc_polygons ==
    /\ pc = "ready"
    /\ CalcBody
    /\ UNCHANGED <<terminator, refraction, solar_lat, pc, rest>>

Next == Construct \/ calc_polygons

Spec == Init /\ [][Next]_vars

AnyCurveSpec == InitAnyCurve /\ [][Next]_vars

----------------------------------------------------------------------------
\* Vocabulary of the properties, defined on the curve itself and not through
\* the steps of calc_polygons.

\* The points of the curve with their longitudes in [-180, 180).
Normalised(t) == [i \in 1..Len(t) |-> Pt(Norm(t[i].lon), t[i].lat)]

\* The successor of position i on the closed curve.
Succ(t, i) == (i % Len(t)) + 1

\* Positions i of the curve whose step to the next point (cyclically) jumps
\* by more than 180 degrees of longitude: the antimeridian crossings.
CrossingsAt(t) ==
    { i \in 1..Len(t) :
        Abs(Norm(t[i].lon) - Norm(t[Succ(t, i)].lon)) > 180000 }

CrossingCount == Cardinality(CrossingsAt(terminator))

\* A longitude within 0.0018 degree of -180 (one thousandth is within, two
\* thousandths are not).
NearMinus180(x) == x >= -180000 /\ x <= -179999

\* The +180 vertices a crossing with an endpoint at (or within 0.0018 degree
\* of) -180 calls for: one per such crossing, with the latitude of that
\* endpoint.
InsertedAt(t) ==
    { i \in CrossingsAt(t) :
        NearMinus180(Norm(t[i].lon)) \/ NearMinus180(Norm(t[Succ(t, i)].lon)) }

InsertedPoint(t, i) ==
    IF NearMinus180(Norm(t[i].lon)) THEN Pt(180000, t[i].lat)
    ELSE Pt(180000, t[Succ(t, i)].lat)

Occurrences(s, p) == Cardinality({ i \in 1..Len(s) : s[i] = p })

RECURSIVE Flatten(_)
Flatten(ss) == IF ss = <<>> THEN <<>> ELSE Head(ss) \o Flatten(Tail(ss))

PointSet(s) == { s[i] : i \in 1..Len(s) }

\* s holds exactly the points of the curve and the inserted +180 vertices,
\* each as often as it occurs there.
HoldsOpenCurve(s) ==
    LET n == Normalised(terminator)
    IN  \A p \in PointSet(s) \cup PointSet(n)
              \cup { InsertedPoint(terminator, i) : i \in InsertedAt(terminator) } :
            Occurrences(s, p) =
                Occurrences(n, p)
                + Cardinality({ i \in InsertedAt(terminator) :
                                  InsertedPoint(terminator, i) = p })

IsClosed(ring) == Len(ring) >= 2 /\ ring[1] = ring[Len(ring)]

AscendingLon(s) == \A i \in 1..(Len(s) - 1) : s[i].lon <= s[i + 1].lon

\* The closed, normalised curve.
Ring == LET n == Normalised(terminator) IN Append(n, n[1])

----------------------------------------------------------------------------
\* C1: after calc_polygons every ring of polygons is explicitly closed (its
\* first vertex equals its last), for every sign of refraction and every
\* number of crossings.  Violated: no crossing and refraction < 0.
C1_PolygonsClosed ==
    has_polygons =>
        \A i \in 1..Len(polygons) :
            polygons[i][1] = polygons[i][Len(polygons[i])]

C3_OneOrTwoElements ==
    outcome = "returned" =>
        /\ Len(edges) \in {1, 2}
        /\ Len(polygons) \in {1, 2}

\* C4: with more than two crossings calc_polygons raises an error instead of
\* returning.  Violated: it returns with edges = polygons = [].
C4_FailsLoudly ==
    (CrossingCount > 2 /\ outcome # "none") => outcome # "returned"

\* The result of the one-crossing case with the pole vertices at latitude y.
OneCrossingShape(y) ==
    /\ Len(edges) = 1
    /\ AscendingLon(edges[1])
    /\ HoldsOpenCurve(edges[1])
    /\ polygons = << edges[1] \o << Pt(180000, y), Pt(-180000, y), edges[1][1] >> >>

\* C5 as stated: one crossing: edges is the curve sorted by ascending
\* longitude and the polygon is that curve, (180, y), (-180, y) and the
\* closing vertex, with y = -90 if sub-solar latitude <= 0, else +90.
C5_PoleAsStated ==
    (has_polygons /\ CrossingCount = 1) =>
        OneCrossingShape(IF solar_lat <= 0 THEN -90000 ELSE 90000)

\* C5 amended: the same with y = +90 if the sub-solar latitude is <= 0 (the
\* north pole is in darkness) and y = -90 otherwise; the curve being the
\* normalised terminator with its inserted +180 vertices.
C5_PoleInDarkness ==
    (has_polygons /\ CrossingCount = 1) =>
        OneCrossingShape(IF solar_lat <= 0 THEN 90000 ELSE -90000)

C5_Witness ==
    /\ has_polygons
    /\ CrossingCount = 1
    /\ solar_lat = 0
    /\ Len(polygons) = 1
    /\ Len(polygons[1]) = Len(terminator) + 3
    /\ \E i \in 1..Len(polygons[1]) : polygons[1][i] = Pt(180000, 90000)

\* C6: with 0, 1 or 2 crossings the points of the edges curves are exactly
\* the points of terminator (normalised), also when a vertex lies at -180.
\* Violated: a crossing with an endpoint at -180 adds a +180 vertex.
C6_RoundTrip ==
    (has_polygons /\ CrossingCount <= 2) =>
        PointSet(Flatten(edges)) = PointSet(Normalised(terminator))

\* A vertex strictly inside the western / eastern half of the map.
West(p) == p.lon < 0 /\ p.lon # -180000
East(p) == p.lon > 0 /\ p.lon # 180000

\* C7: two crossings and refraction >= 0: exactly 2 polygons, and no ring
\* holds both a vertex of negative and a vertex of positive longitude, the
\* boundary vertices at +/-180 aside.
C7_TwoPolygonsOneSideEach ==
    (has_polygons /\ CrossingCount = 2 /\ refraction >= 0) =>
        /\ Len(polygons) = 2
        /\ \A i \in 1..Len(polygons) :
              ~ \E j, k \in 1..Len(polygons[i]) :
                    West(polygons[i][j]) /\ East(polygons[i][k])

C7_Witness ==
    /\ has_polygons
    /\ CrossingCount = 2
    /\ refraction >= 0
    /\ Len(polygons) = 2
    /\ \E i, k \in 1..2 :
          /\ \E j \in 1..Len(polygons[i]) : West(polygons[i][j])
          /\ \E j \in 1..Len(polygons[k]) : East(polygons[k][j])

\* C8: two crossings and refraction < 0: polygons is one ring: the western
\* arc, (-180,-90), (180,-90), the eastern arc, (180,90), (-180,90) and the
\* closing vertex, whichever arc is first in edges; edges holds the two arcs.
C8_InvertedRingWesternFirst ==
    (has_polygons /\ CrossingCount = 2 /\ refraction < 0) =>
        /\ Len(edges) = 2
        /\ HoldsOpenCurve(Flatten(edges))
        /\ \E w, e \in 1..2 :
              /\ w # e
              /\ \A j \in 1..Len(edges[w]) : edges[w][j].lon < 0
              /\ \A j \in 1..Len(edges[e]) : edges[e][j].lon > 0
              /\ polygons =
                    << edges[w] \o << Pt(-180000, -90000), Pt(180000, -90000) >>
                       \o edges[e] \o << Pt(180000, 90000), Pt(-180000, 90000) >>
                       \o << edges[w][1] >> >>

C8_Witness ==
    /\ has_polygons
    /\ CrossingCount = 2
    /\ refraction < 0
    /\ Len(edges) = 2
    /\ edges[1][1].lon > 0
    /\ Len(polygons) = 1
    /\ polygons[1][1].lon < 0

\* C9: no crossing: edges = [ring], the closed normalised curve; polygons
\* has one element: the ring itself when refraction >= 0 (0 included), and
\* when refraction < 0 the ring (reversed) extended with the corner points
\* (180,90), (180,-90), (-180,-90), (-180,90), (180,90).
C9_ZeroCrossings ==
    (has_polygons /\ CrossingCount = 0) =>
        /\ edges = << Ring >>
        /\ Len(polygons) = 1
        /\ refraction >= 0 => polygons[1] = Ring
        /\ refraction < 0 =>
              /\ Len(polygons[1]) = Len(Ring) + 5
              /\ \A i \in 1..Len(Ring) :
                    polygons[1][i] = Ring[Len(Ring) + 1 - i]
              /\ SubSeq(polygons[1], Len(Ring) + 1, Len(Ring) + 5) =
                    << Pt(180000, 90000), Pt(180000, -90000), Pt(-180000, -90000),
                       Pt(-180000, 90000), Pt(180000, 90000) >>

C9_Witness ==
    /\ has_polygons
    /\ CrossingCount = 0
    /\ refraction = 0
    /\ Len(terminator) >= 3
    /\ \E i \in 1..Len(terminator) : terminator[i].lon = 180000
    /\ polygons = << Ring >>

\* C10: on an empty terminator curve, computing with polygons enabled (the
\* constructor with calculate_polygons=True, or calc_polygons()) completes
\* without an error and yields an empty polygon result.  Violated: lon[0]
\* raises IndexError.
C10_EmptyCurveCompletes ==
    (terminator = <<>> /\ outcome # "none") =>
        /\ outcome = "returned"
        /\ pc # "failed"
        /\ polygons = <<>>

\* The closed, normalised curve with a +180 vertex between the two endpoints
\* of each crossing in `at`, taking its latitude from the endpoint `from`
\* names (a position of the curve).
WithVertices(t, at, from(_)) ==
    LET n == Normalised(t)
    IN  Flatten([i \in 1..Len(t) |->
                    IF i \in at THEN << n[i], Pt(180000, n[from(i)].lat) >>
                    ELSE << n[i] >>])
        \o << n[1] >>

\* The crossings with an endpoint at exactly -180, and that endpoint.
ExactAt(t) ==
    { i \in CrossingsAt(t) :
        Norm(t[i].lon) = -180000 \/ Norm(t[Succ(t, i)].lon) = -180000 }

ExactEnd(t, i) == IF Norm(t[i].lon) = -180000 THEN i ELSE Succ(t, i)

\* The endpoint of a crossing that lies within 0.0018 degree of -180.
NearEnd(t, i) == IF NearMinus180(Norm(t[i].lon)) THEN i ELSE Succ(t, i)

\* The curve as calc_polygons holds it after its insertion loop (line 249).
AfterInsertion ==
    LET c == close_curve(terminator)
    IN  insert_loop(c, Reverse(get_transitions(c)))

IsRotation(a, b) ==
    /\ Len(a) = Len(b)
    /\ \E k \in 0..Len(a) :
          \A i \in 1..Len(a) : a[i] = b[((i + k - 1) % Len(b)) + 1]

Alphas == {-180000, -179999, -90000, 0, 90000, 179999, 180000}
Thetas == {0, 1, 90000, 180000, 270000, 359999}
Declinations == {-90, -23, 0, 23, 90}

\* Line 208: if lon < -180: lon += 360.
wrap(lon) == IF lon < -180000 THEN lon + 360000 ELSE lon

\* Lines 207-209: the returned pair.
sub_solar(e) == [lon |-> wrap(-(e.theta_GMST - e.alpha_sun)), lat |-> e.delta_sun]

\* The attributes of an object nothing has been computed for.
Unbuilt ==
    /\ terminator = <<>> /\ refraction = 0 /\ solar_lat = 0 /\ solar_lon = 0
    /\ has_polygons = FALSE /\ edges = <<>> /\ polygons = <<>>
    /\ outcome = "none" /\ date = NoDate /\ delta = 1
    /\ kept = <<>> /\ call = NoCall
    /\ writes = 0

\* The same, with nothing of the plugin around it run.
Blank == Unbuilt /\ HostIdle

SolarInit ==
    /\ Blank
    /\ samples = <<>> /\ angles = <<>>
    /\ ephem \in [alpha_sun : Alphas, theta_GMST : Thetas,
                  delta_sun : Declinations]
    /\ tie = "kept" /\ clock = 1
    /\ pc = "solar"

\* The static method, called once on the drawn ephemeris.
solar_position ==
    /\ pc = "solar"
    /\ solar_lon' = sub_solar(ephem).lon
    /\ solar_lat' = sub_solar(ephem).lat
    /\ pc' = "solar_done"
    /\ UNCHANGED host
    /\ UNCHANGED <<terminator, refraction, has_polygons, edges, polygons,
                   outcome, date, delta, ephem, samples, angles, tie, clock,
                   kept, call, writes>>

SolarNext == solar_position

SolarSpec == SolarInit /\ [][SolarNext]_vars

SolarPositionClosedRange ==
    pc = "solar_done" =>
        /\ solar_lon >= -180000 /\ solar_lon <= 180000
        /\ solar_lon = 180000 <=>
               (ephem.alpha_sun = 180000 /\ ephem.theta_GMST = 0)


\* ---------------------------------------------------------------------
\* The merge of set_date (lines 77-78) and _sort (lines 83-100).  The
\* vector algebra of lines 86-96 is not evaluated: every sample carries
\* the angle line 96 computes for it in the field ang.  The samples of
\* both samplers lie on one circle about the axis of the sunlight, so two
\* samples have the same angle exactly when they are the same point of
\* the globe.

MaxSamples == 2

Samples ==
    { [lon |-> -180000, lat |->  50000, ang |-> 2],
      [lon |->  180000, lat |->  50000, ang |-> 2],
      [lon |->   90000, lat |-> -60000, ang |-> 1],
      [lon |->  170000, lat |->  50000, ang |-> 3],
      [lon |->  -90000, lat |-> -60000, ang |-> 0] }

SampleSeqs == UNION { [1..n -> Samples] : n \in 0..MaxSamples }

\* ndarray.argsort(): the 1-based indices of k in ascending order of key.
\* numpy's default sort is not stable; t is the order it leaves equal
\* keys in ("kept": as they were, "reversed": the other way round).
RECURSIVE order_from(_, _, _)
order_from(k, rem, t) ==
    IF rem = {} THEN <<>>
    ELSE LET least == { i \in rem : \A j \in rem : k[i] <= k[j] }
             m == IF t = "kept"
                  THEN CHOOSE i \in least : \A j \in least : i <= j
                  ELSE CHOOSE i \in least : \A j \in least : i >= j
         IN  <<m>> \o order_from(k, rem \ {m}, t)

argsort_by(k, t) == order_from(k, 1..Len(k), t)

\* Lines 77-78: np.append of the two samplers' arrays.
merge(s) == s.rot \o s.lon

\* Line 85: the longitudes are normalised before anything else.
normalise(s) ==
    [i \in 1..Len(s) |-> [lon |-> Norm(s[i].lon), lat |-> s[i].lat,
                          ang |-> s[i].ang]]

\* _sort with line 98 lacking its [::-1].
sort_ascending(s, t) ==
    LET n == normalise(s)
        order == argsort_by([i \in 1..Len(n) |-> n[i].ang], t)
    IN  [i \in 1..Len(n) |-> n[order[i]]]

\* Lines 85-100: order = angles.argsort()[::-1], then both arrays indexed
\* by order.
_sort(s, t) ==
    LET n == normalise(s)
        order == Reverse(argsort_by([i \in 1..Len(n) |-> n[i].ang], t))
    IN  [i \in 1..Len(n) |-> n[order[i]]]

\* The returned arrays, and the angles that went with them.
coords(s) == [i \in 1..Len(s) |-> Pt(s[i].lon, s[i].lat)]
angs(s) == [i \in 1..Len(s) |-> s[i].ang]

SortInit ==
    /\ Blank
    /\ ephem = <<>> /\ clock = 1
    /\ samples \in [rot : SampleSeqs, lon : SampleSeqs]
    /\ angles = <<>>
    /\ tie \in {"kept", "reversed"}
    /\ pc = "sort"

\* Lines 77-80 of set_date on the drawn sampler outputs.
sort_merged ==
    /\ pc = "sort"
    /\ terminator' = coords(_sort(merge(samples), tie))
    /\ angles' = angs(_sort(merge(samples), tie))
    /\ pc' = "sorted"
    /\ UNCHANGED host
    /\ UNCHANGED <<refraction, solar_lat, has_polygons, edges, polygons,
                   outcome, date, delta, solar_lon, ephem, samples, tie,
                   clock, kept, call, writes>>

SortNext == sort_merged

SortSpec == SortInit /\ [][SortNext]_vars

Count(s, x) == Cardinality({ i \in DOMAIN s : s[i] = x })

Dates == { Naive(1), Naive(2), Aware(1, 0), Aware(1, 2) }
Deltas == {-1, 0, 1, 20, 200}

\* How often delta or refraction is assigned on one object.
MaxWrites == 1

\* 91 stands for a refraction above 90 at which no sample of either sampler
\* survives (90.42 at delta = 1).
LifeRefractions == {-6, 6, 91}

\* The object before line 65.
NoObject ==
    [date |-> NoDate, delta |-> 1, refraction |-> 0, solar_lon |-> 0,
     solar_lat |-> 0, terminator |-> <<>>, has_polygons |-> FALSE,
     edges |-> <<>>, polygons |-> <<>>]

\* date.utcoffset() as a truth value (line 63): None and timedelta(0) are
\* false.
utcoffset(d) == d.aware /\ d.off # 0

\* datetime.__eq__ (line 71): naive datetimes compare by their fields,
\* aware ones by their instant, a naive and an aware one are never equal.
date_eq(a, b) ==
    IF a.aware # b.aware THEN FALSE
    ELSE IF a.aware THEN a.wall - a.off = b.wall - b.off
    ELSE a.wall = b.wall

\* __init__ with every date taken from the clock.
given_date_now(d, now) == Naive(now)

\* Line 62: if date is None: date = datetime.utcnow().
given_date(d, now) == IF d = NoDate THEN Naive(now) ELSE d

\* Lines 195-206 for the two wall-clock readings of the model.
Ephemeris(w) ==
    IF w = 1
    THEN [alpha_sun |-> 100000, theta_GMST |-> 10000, delta_sun |-> -23]
    ELSE [alpha_sun |-> -170000, theta_GMST |-> 350000, delta_sun |-> 23]

\* The points of the terminator circle for the two readings, clockwise as
\* seen from the sun, at refraction 0.  The trigonometry of the samplers
\* is not evaluated: a sampler picks its points from this circle.
Circle(w) ==
    IF w = 1
    THEN << Pt(-90000, -60000), Pt(90000, -70000), Pt(90000, -60000),
            Pt(170000, 50000), Pt(-179999, 60000), Pt(-100000, 50000) >>
    ELSE << Pt(170000, 50000), Pt(180000, 60000), Pt(-170000, 50000),
            Pt(-170000, -50000), Pt(-180000, -60000), Pt(170000, -50000) >>

\* The sample at a position of the circle: its latitude moves with the
\* refraction and the step, its angle (line 96 of _sort) falls along the
\* circle.
sample_at(w, dl, r, pos) ==
    LET c == Circle(w)[pos]
    IN  [lon |-> c.lon, lat |-> c.lat + 1000 * r + dl,
         ang |-> Len(Circle(w)) - pos]

\* int(x / y) and x // y of Python for whole numbers, y # 0.
TruncDiv(x, y) ==
    IF (x >= 0) = (y > 0) THEN Abs(x) \div Abs(y) ELSE -(Abs(x) \div Abs(y))
FloorDiv(x, y) ==
    IF (x >= 0) = (y > 0) \/ Abs(x) % Abs(y) = 0 THEN TruncDiv(x, y)
    ELSE TruncDiv(x, y) - 1

Min(a, b) == IF a <= b THEN a ELSE b

\* Lines 112-122: what _method_rotation raises for a step.  180/0 raises
\* ZeroDivisionError, np.empty of a negative size ValueError, np.delete of
\* index 0 from an empty array IndexError.
rotation_error(dl) ==
    IF dl = 0 THEN "ZeroDivisionError"
    ELSE IF TruncDiv(180, dl) < 0 THEN "ValueError"
    ELSE IF TruncDiv(180, dl) = 0 THEN "IndexError"
    ELSE "none"

\* Line 122: np.delete(a, [N, -1]) on an array of 2*N entries, an entry
\* being its index in the array and whether its longitude is nan.
np_delete(a) ==
    SelectSeq(a, LAMBDA e : e.index \notin {Len(a) \div 2, Len(a) - 1})

\* Lines 124-125: notnan = np.where(~np.isnan(longitude)).
notnan(a) == SelectSeq(a, LAMBDA e : ~e.nan)

\* Lines 122-125 without the notnan selection.
rotation_kept_with_nan(raw) == np_delete(raw)

\* Lines 122-125: what is left of the rotation grid.
rotation_kept(raw) == notnan(np_delete(raw))

\* Lines 118-119: the entries of the grid whose arccos is NaN.  For a
\* positive refraction the latitudes at both ends of each sweep lie beyond
\* the domain; above 90 degrees every entry of the modelled grid does.
is_nan(k, n, r) == r > 90 \/ (r > 0 /\ k \in {0, n - 1, n, 2 * n - 1})

\* Lines 112-142.  The grid has 2*N entries, N = int(180/delta); the model
\* keeps at most MaxSamples + 1 latitudes.  Entries N and -1 are deleted
\* (line 122), NaN entries dropped (lines 124-125), the rest rotated.
_method_rotation(w, dl, r) ==
    LET n == Min(TruncDiv(180, dl), MaxSamples + 1)
        raw == [k \in 1..(2 * n) |->
                   [index |-> k - 1, nan |-> is_nan(k - 1, n, r)]]
        left == rotation_kept(raw)
    IN  [i \in 1..Len(left) |->
            sample_at(w, dl, r, (left[i].index % Len(Circle(w))) + 1)]

\* Lines 157-185.  int(360//delta + 1) - 1 longitudes, of which the model
\* keeps at most MaxSamples; for a refraction above 90 the test of line
\* 181 (angle_to_sun close to pi/2 + refraction > pi) keeps nothing.
_method_longitudes(w, dl, r) ==
    LET m == Min(FloorDiv(360, dl), MaxSamples)
    IN  IF r > 90 THEN <<>>
        ELSE [j \in 1..m |->
                 sample_at(w, dl, r, ((j + 1) % Len(Circle(w))) + 1)]

\* Lines 75-80 for a naive date: the sorted merge of both samplers.
sampled(w, dl, r, t) ==
    _sort(merge([rot |-> _method_rotation(w, dl, r),
                 lon |-> _method_longitudes(w, dl, r)]), t)

\* calc_polygons with the order of equal longitudes (line 253) fixed by t.
tied_results(c, refr, slat, t) ==
    LET closed == close_curve(c)
        ins == insert_loop(closed, Reverse(get_transitions(closed)))
        open == remove_duplicated(ins)
        p == argsort_by([i \in 1..Len(open) |-> open[i].lon], t)
    IN  { r \in calc_results(c, refr, slat) :
            Len(get_transitions(ins)) = 1 =>
                r.edges[1] = [i \in 1..Len(open) |-> open[p[i]]] }

\* calc_polygons storing the closed curve of line 225 in self.terminator.
calc_on_closing(o, t) ==
    IF o.terminator = <<>> THEN [self |-> o, outcome |-> "IndexError"]
    ELSE LET r == CHOOSE x \in tied_results(o.terminator, o.refraction,
                                            o.solar_lat, t) : TRUE
         IN  [self |-> [o EXCEPT !.has_polygons = TRUE, !.edges = r.edges,
                                 !.polygons = r.polygons,
                                 !.terminator = close_curve(o.terminator)],
              outcome |-> "returned"]

\* Lines 223-269 on an object.
calc_on(o, t) ==
    IF o.terminator = <<>> THEN [self |-> o, outcome |-> "IndexError"]
    ELSE LET r == CHOOSE x \in tied_results(o.terminator, o.refraction,
                                            o.solar_lat, t) : TRUE
         IN  [self |-> [o EXCEPT !.has_polygons = TRUE, !.edges = r.edges,
                                 !.polygons = r.polygons],
              outcome |-> "returned"]

\* set_date without line 81: the polygons are left as they were.
set_date_on_without_polygons(o, d, t) ==
    IF o.date # NoDate /\ date_eq(d, o.date)
    THEN [self |-> o, outcome |-> "returned"]
    ELSE LET p == sub_solar(Ephemeris(d.wall))
         IN  IF d.aware
             THEN [self |-> [o EXCEPT !.date = d], outcome |-> "TypeError"]
             ELSE IF rotation_error(o.delta) # "none"
             THEN [self |-> [o EXCEPT !.date = d, !.solar_lon = p.lon,
                                      !.solar_lat = p.lat],
                   outcome |-> rotation_error(o.delta)]
             ELSE [self |-> [o EXCEPT !.date = d, !.solar_lon = p.lon,
                                      !.solar_lat = p.lat,
                                      !.terminator =
                                          coords(sampled(d.wall, o.delta,
                                                         o.refraction, t))],
                   outcome |-> "returned"]

\* set_date without lines 70-71: an equal date is computed for again.
set_date_on_without_cache(o, d, t) ==
    LET p == sub_solar(Ephemeris(d.wall))
        o3 == [o EXCEPT !.date = d, !.solar_lon = p.lon, !.solar_lat = p.lat,
                        !.terminator =
                            coords(sampled(d.wall, o.delta, o.refraction, t))]
    IN  IF d.aware
        THEN [self |-> [o EXCEPT !.date = d], outcome |-> "TypeError"]
        ELSE IF rotation_error(o.delta) # "none"
        THEN [self |-> [o EXCEPT !.date = d, !.solar_lon = p.lon,
                                 !.solar_lat = p.lat],
              outcome |-> rotation_error(o.delta)]
        ELSE IF o.has_polygons THEN calc_on(o3, t)
        ELSE [self |-> o3, outcome |-> "returned"]

\* set_date with line 81 lacking its test: calc_polygons always runs.
set_date_on_always_polygons(o, d, t) ==
    IF o.date # NoDate /\ date_eq(d, o.date)
    THEN [self |-> o, outcome |-> "returned"]
    ELSE LET p == sub_solar(Ephemeris(d.wall))
         IN  IF d.aware
             THEN [self |-> [o EXCEPT !.date = d], outcome |-> "TypeError"]
             ELSE IF rotation_error(o.delta) # "none"
             THEN [self |-> [o EXCEPT !.date = d, !.solar_lon = p.lon,
                                      !.solar_lat = p.lat],
                   outcome |-> rotation_error(o.delta)]
             ELSE calc_on([o EXCEPT !.date = d, !.solar_lon = p.lon,
                                    !.solar_lat = p.lat,
                                    !.terminator =
                                        coords(sampled(d.wall, o.delta,
                                                       o.refraction, t))], t)

\* Lines 69-81 on an object.  Each attribute is assigned where the code
\* assigns it, so an exception leaves the assignments made before it.
set_date_on(o, d, t) ==
    IF o.date # NoDate /\ date_eq(d, o.date)
    THEN [self |-> o, outcome |-> "returned"]
    ELSE LET o1 == [o EXCEPT !.date = d]
             p == sub_solar(Ephemeris(d.wall))
             o2 == [o1 EXCEPT !.solar_lon = p.lon, !.solar_lat = p.lat]
             o3 == [o2 EXCEPT !.terminator =
                        coords(sampled(d.wall, o.delta, o.refraction, t))]
         IN  IF d.aware THEN [self |-> o1, outcome |-> "TypeError"]
             ELSE IF rotation_error(o.delta) # "none"
             THEN [self |-> o2, outcome |-> rotation_error(o.delta)]
             ELSE IF o.has_polygons THEN calc_on(o3, t)
             ELSE [self |-> o3, outcome |-> "returned"]

\* Lines 61-67.  An exception leaves no object behind.
init_on(d, dl, r, cp, now, t) ==
    IF d # NoDate /\ utcoffset(d)
    THEN [self |-> NoObject, outcome |-> "ValueError"]
    ELSE LET o == [NoObject EXCEPT !.delta = dl, !.refraction = r]
             a == set_date_on(o, given_date(d, now), t)
             b == IF a.outcome = "returned" /\ cp THEN calc_on(a.self, t)
                  ELSE a
         IN  IF b.outcome = "returned" THEN b
             ELSE [self |-> NoObject, outcome |-> b.outcome]

\* The object as a record, and the assignment of one to the attributes.
Self ==
    [date |-> date, delta |-> delta, refraction |-> refraction,
     solar_lon |-> solar_lon, solar_lat |-> solar_lat,
     terminator |-> terminator, has_polygons |-> has_polygons,
     edges |-> edges, polygons |-> polygons]

Becomes(o) ==
    /\ date' = o.date /\ delta' = o.delta /\ refraction' = o.refraction
    /\ solar_lon' = o.solar_lon /\ solar_lat' = o.solar_lat
    /\ terminator' = o.terminator /\ has_polygons' = o.has_polygons
    /\ edges' = o.edges /\ polygons' = o.polygons

Called(op, d, dl, r, cp) ==
    call' = [op |-> op, date |-> d, delta |-> dl, refraction |-> r,
             calculate_polygons |-> cp, was |-> date]

LifeInit ==
    /\ Blank
    /\ solar_lon = 0 /\ ephem = <<>> /\ samples = <<>> /\ angles = <<>>
    /\ tie \in {"kept", "reversed"}
    /\ clock = 1
    /\ pc = "none"

\* Terminator(date, delta, refraction, calculate_polygons).
Create(d, dl, r, cp) ==
    \E res \in {init_on(d, dl, r, cp, clock, tie)} :
        /\ Becomes(res.self)
        /\ outcome' = res.outcome
        /\ pc' = IF res.outcome = "returned" THEN "ready" ELSE "none"
        /\ Called("__init__", d, dl, r, cp)

__init__ ==
    /\ pc = "none"
    /\ \E d \in Dates \cup {NoDate}, dl \in Deltas, r \in LifeRefractions,
          cp \in BOOLEAN : Create(d, dl, r, cp)
    /\ writes' = 0
    /\ UNCHANGED host
    /\ UNCHANGED <<ephem, samples, angles, tie, clock, kept>>

set_date ==
    /\ pc = "ready"
    /\ \E d \in Dates :
          \E res \in {set_date_on(Self, d, tie)} :
              /\ Becomes(res.self)
              /\ outcome' = res.outcome
              /\ Called("set_date", d, delta, refraction, has_polygons)
    /\ UNCHANGED host
    /\ UNCHANGED <<pc, ephem, samples, angles, tie, clock, kept, writes>>

\* calc_polygons() on the living object.
polygons_called ==
    /\ pc = "ready"
    /\ \E res \in {calc_on(Self, tie)} :
           /\ Becomes(res.self)
           /\ outcome' = res.outcome
           /\ Called("calc_polygons", date, delta, refraction, has_polygons)
    /\ UNCHANGED host
    /\ UNCHANGED <<pc, ephem, samples, angles, tie, clock, kept, writes>>

\* t.delta = dl and t.refraction = r: plain attributes, nothing recomputed.
delta_assigned ==
    /\ pc = "ready"
    /\ writes < MaxWrites
    /\ writes' = writes + 1
    /\ \E dl \in Deltas \ {delta} :
          /\ delta' = dl
          /\ Called("delta", date, dl, refraction, has_polygons)
    /\ outcome' = "returned"
    /\ UNCHANGED host
    /\ UNCHANGED <<terminator, refraction, solar_lat, has_polygons, edges,
                   polygons, pc, date, solar_lon, ephem, samples, angles,
                   tie, clock, kept>>

refraction_assigned ==
    /\ pc = "ready"
    /\ writes < MaxWrites
    /\ writes' = writes + 1
    /\ \E r \in LifeRefractions \ {refraction} :
          /\ refraction' = r
          /\ Called("refraction", date, delta, r, has_polygons)
    /\ outcome' = "returned"
    /\ UNCHANGED host
    /\ UNCHANGED <<terminator, delta, solar_lat, has_polygons, edges,
                   polygons, pc, date, solar_lon, ephem, samples, angles,
                   tie, clock, kept>>

LifeNext ==
    \/ __init__
    \/ set_date
    \/ polygons_called
    \/ delta_assigned
    \/ refraction_assigned

LifeSpec == LifeInit /\ [][LifeNext]_vars


\* What the object holds when everything was computed from scratch for its
\* present date, delta and refraction.
FreshPoint ==
    /\ solar_lon = sub_solar(Ephemeris(date.wall)).lon
    /\ solar_lat = sub_solar(Ephemeris(date.wall)).lat

FreshTerminator ==
    terminator = coords(sampled(date.wall, delta, refraction, tie))

FreshPolygons ==
    has_polygons =>
        /\ terminator # <<>>
        /\ [edges |-> edges, polygons |-> polygons]
               \in tied_results(terminator, refraction, solar_lat, tie)

Raised == outcome \notin {"none", "returned"}

\* C11: a date with a non-zero UTC offset is rejected with an error by
\* Terminator(date) and by set_date(date); neither returns normally.
C11_NonUtcRejected ==
    (call.op \in {"__init__", "set_date"} /\ utcoffset(call.date)) => Raised

\* C12: Terminator(date) with an aware date of UTC offset zero constructs
\* successfully and gives the sub-solar point and the terminator of the
\* naive datetime with the same fields.
C12_UtcAwareAccepted ==
    (/\ call.op = "__init__"
     /\ call.date.aware /\ call.date.off = 0
     /\ call.delta > 0 /\ call.delta <= 10
     /\ call.refraction <= 90)
    => /\ outcome = "returned"
       /\ pc = "ready"
       /\ solar_lon = sub_solar(Ephemeris(call.date.wall)).lon
       /\ solar_lat = sub_solar(Ephemeris(call.date.wall)).lat
       /\ terminator = coords(sampled(call.date.wall, call.delta,
                                      call.refraction, tie))

\* C13: Terminator(date, delta, ...) with delta <= 0 or delta > 10 raises
\* an error and produces no object.
C13_BadDeltaRejected ==
    (call.op = "__init__" /\ (call.delta <= 0 \/ call.delta > 10))
    => Raised /\ pc = "none"

\* C14: when set_date(d), d different from the stored date, returns, the
\* object holds date = d, the sub-solar point of d, the sorted merge of
\* both samplers for d and, if edges and polygons exist, the assembly of
\* that terminator.
C14_SetDateRecalculates ==
    (/\ call.op = "set_date" /\ outcome = "returned"
     /\ ~date_eq(call.date, call.was))
    => /\ date = call.date
       /\ FreshPoint
       /\ FreshTerminator
       /\ FreshPolygons

\* set_date changed the date of an object with polygons, and the curve and
\* the polygons are not those of the date before.
C14_Witness ==
    /\ call.op = "set_date" /\ outcome = "returned"
    /\ ~date_eq(call.date, call.was)
    /\ ~call.was.aware
    /\ has_polygons
    /\ terminator # coords(sampled(call.was.wall, delta, refraction, tie))
    /\ terminator # <<>>

\* C15: after delta or refraction of an object was changed and set_date
\* returned, terminator, and edges and polygons when present, are the
\* from-scratch result for the present date, delta and refraction.
C15_RecomputedAfterReconfiguration ==
    (/\ call.op = "set_date" /\ outcome = "returned"
     /\ writes > 0
     /\ ~date.aware /\ rotation_error(delta) = "none")
    => FreshTerminator /\ FreshPolygons

\* C16: edges and polygons come into existence only by Terminator(...,
\* calculate_polygons=True) or by calc_polygons(); an object built without
\* them has none after any set_date calls, and has both once
\* calc_polygons() has returned.
C16_PolygonsOnlyOnRequest ==
    /\ []((call.op = "__init__" /\ outcome = "returned"
              /\ ~call.calculate_polygons) => ~has_polygons)
    /\ []((call.op = "calc_polygons" /\ outcome = "returned")
              => (has_polygons /\ edges # <<>> /\ polygons # <<>>))
    /\ [][(has_polygons' /\ ~has_polygons)
              => \/ call'.op = "calc_polygons"
                 \/ call'.op = "__init__" /\ call'.calculate_polygons]_vars
    /\ [](~has_polygons => (edges = <<>> /\ polygons = <<>>))

\* An object built without polygons whose date set_date has changed.
C16_Witness ==
    /\ call.op = "set_date" /\ outcome = "returned"
    /\ ~date_eq(call.date, call.was)
    /\ date = call.date
    /\ terminator # <<>>
    /\ ~has_polygons


\* ---------------------------------------------------------------------
\* Several objects, one after the other, while the clock runs: what one
\* construction gives is kept and compared with a later one with the same
\* arguments.

Walls == {1, 2}

Args(d, dl, r, cp) ==
    [date |-> d, delta |-> dl, refraction |-> r, calculate_polygons |-> cp]

\* Terminator(...) called again; the first time, or never, its arguments,
\* the reading of the clock and the result are kept.
constructed ==
    /\ pc = "none"
    /\ \E d \in {NoDate, Naive(1), Naive(2)}, dl \in {1, 20},
          r \in LifeRefractions, cp \in BOOLEAN :
          /\ Create(d, dl, r, cp)
          /\ \/ kept' = kept
             \/ /\ kept = <<>>
                /\ kept' = << [args |-> Args(d, dl, r, cp), now |-> clock,
                               result |-> init_on(d, dl, r, cp, clock, tie)] >>
    /\ writes' = 0
    /\ UNCHANGED host
    /\ UNCHANGED <<ephem, samples, angles, tie, clock>>

\* The object goes out of use.
discarded ==
    /\ pc \in {"ready"}
    /\ Becomes(NoObject)
    /\ pc' = "none"
    /\ outcome' = "none"
    /\ call' = NoCall
    /\ writes' = 0
    /\ UNCHANGED host
    /\ UNCHANGED <<ephem, samples, angles, tie, clock, kept>>

\* Time passes: datetime.utcnow() reads later.
tick ==
    /\ clock + 1 \in Walls
    /\ clock' = clock + 1
    /\ UNCHANGED host
    /\ UNCHANGED <<terminator, refraction, solar_lat, has_polygons, edges,
                   polygons, pc, outcome, date, delta, solar_lon, ephem,
                   samples, angles, tie, kept, call, writes>>

HistoryNext ==
    \/ constructed
    \/ set_date
    \/ polygons_called
    \/ discarded
    \/ tick

HistorySpec == LifeInit /\ [][HistoryNext]_vars

SameAsKept ==
    /\ outcome = kept[1].result.outcome
    /\ Self = kept[1].result.self

Repeated ==
    /\ call.op = "__init__"
    /\ kept # <<>>
    /\ Args(call.date, call.delta, call.refraction, call.calculate_polygons)
           = kept[1].args

OpenCurve == remove_duplicated(AfterInsertion)
Crossings == get_transitions(AfterInsertion)

\* The 1-based positions of the open curve an arc takes, in its order.
FirstPositions == [i \in 1..(Crossings[2] - Crossings[1]) |-> Crossings[1] + i]
SecondPositions ==
    [i \in 1..(Len(OpenCurve) - Crossings[2]) |-> Crossings[2] + i]
    \o [i \in 1..Crossings[1] |-> i]

\* C28: with exactly two crossings the two arcs in edges partition the
\* open curve left by the +180 insertions: the first arc is the slice
\* between the two crossing indices, the second the tail after the second
\* crossing followed by the head before the first, each in the curve's
\* order, and every vertex of the curve is in exactly one arc.
C28_ArcsPartitionOpenCurve ==
    (has_polygons /\ terminator # <<>> /\ Len(Crossings) = 2) =>
        /\ Len(edges) = 2
        /\ edges[1] = [i \in 1..Len(FirstPositions) |->
                          OpenCurve[FirstPositions[i]]]
        /\ edges[2] = [i \in 1..Len(SecondPositions) |->
                          OpenCurve[SecondPositions[i]]]
        /\ \A k \in 1..Len(OpenCurve) :
               Count(FirstPositions \o SecondPositions, k) = 1

\* Two crossings, a +180 vertex inserted, and the second arc made of a
\* tail and a head.
C28_Witness ==
    /\ has_polygons /\ terminator # <<>> /\ Len(Crossings) = 2
    /\ Len(OpenCurve) > Len(terminator)
    /\ Crossings[1] > 0 /\ Crossings[2] < Len(OpenCurve)
    /\ Len(edges) = 2 /\ Len(edges[1]) >= 1 /\ Len(edges[2]) >= 2


\* ---------------------------------------------------------------------
\* What the methods leave alone.

Computed == <<solar_lon, solar_lat, terminator>>
Plotted == <<has_polygons, edges, polygons>>

\* C23: set_date(d) with d equal to the stored date changes nothing: date,
\* solar_lon, solar_lat, terminator and the existence and values of edges
\* and polygons stay as they are, and the call returns.
C23_SameDateNoOp ==
    [][(call'.op = "set_date" /\ date_eq(call'.date, date))
           => /\ outcome' = "returned"
              /\ UNCHANGED <<date, delta, refraction, Computed, Plotted>>]_vars

\* set_date was called with the stored date on an object with polygons
\* whose refraction or delta had been changed since: the curve is still
\* the one of the old configuration.
C23_Witness ==
    /\ call.op = "set_date" /\ date_eq(call.date, call.was)
    /\ outcome = "returned"
    /\ has_polygons /\ writes > 0
    /\ ~date.aware /\ rotation_error(delta) = "none"
    /\ ~FreshTerminator

\* C26: calc_polygons leaves date, delta, refraction, solar_lon, solar_lat
\* and terminator as they are, and a second call right after a first gives
\* the same edges and polygons.
C26_CalcPolygonsFrameAndIdempotent ==
    [][call'.op = "calc_polygons"
           => /\ UNCHANGED <<date, delta, refraction, Computed>>
              /\ (call.op = "calc_polygons" /\ outcome = "returned")
                     => (outcome' = "returned" /\ UNCHANGED Plotted)]_vars

\* calc_polygons returned on an object that had polygons already.
C26_Witness ==
    /\ call.op = "calc_polygons" /\ call.calculate_polygons
    /\ outcome = "returned"
    /\ has_polygons /\ Len(edges) >= 1
    /\ FreshTerminator

\* C27: a set_date that raises leaves date, solar_lon, solar_lat,
\* terminator, edges and polygons with the values they had.
C27_FailedSetDateChangesNothing ==
    [][(call'.op = "set_date" /\ outcome' \notin {"none", "returned"})
           => UNCHANGED <<date, Computed, Plotted>>]_vars

\* ---------------------------------------------------------------------
\* The merged samples (set_date lines 74-80, under SortSpec).

\* C22: the terminator holds unique coordinates: no two of its points
\* have the same longitude and latitude, also when the rotation sampler
\* and the longitude sampler produce the same coordinate.
C22_UniqueCoordinates ==
    pc = "sorted" =>
        \A i, j \in 1..Len(terminator) :
            i # j => terminator[i] # terminator[j]

\* ---------------------------------------------------------------------
\* The two samplers on their raw arrays (lines 112-125 and 157-185).
\* Which entries fail a domain check depends on the refraction and the
\* sub-solar point through arccos, the discriminant and arcsin; the raw
\* arrays are drawn with every pattern of failures instead.

MaxGrid == 3
MaxLongitudes == 2

\* Lines 115-121: omega0 is a function of the latitude, and latitude[N:]
\* mirrors latitude[:N], so the nans of the second half mirror the first;
\* h gives the nans of the first half.
rotation_grid(h) ==
    [k \in 1..(2 * Len(h)) |->
        [index |-> k - 1,
         nan |-> IF k <= Len(h) THEN h[k] ELSE h[2 * Len(h) + 1 - k]]]

RotationGrids ==
    { rotation_grid(h) : h \in UNION { [1..n -> BOOLEAN] : n \in 1..MaxGrid } }

\* One longitude of lines 157-166: the sign of D and, for each root of the
\* quadratic, whether it lies outside [-1, 1] ("outside"), lies inside but
\* fails the test of line 181 ("wrong", an angle_to_sun of nan included),
\* or passes ("ok").  For D < 0 the roots are nan.
RootKinds == {"outside", "wrong", "ok"}

Longitudes ==
    { [D |-> "negative", plus |-> "nan", minus |-> "nan"] }
        \cup [D : {"nonnegative"}, plus : RootKinds, minus : RootKinds]

LongitudeGrids == UNION { [1..n -> Longitudes] : n \in 0..MaxLongitudes }

\* Lines 167-168: valid = np.where(D >= 0), as positions of the grid.
valid(g) == SelectSeq([j \in 1..Len(g) |-> j], LAMBDA j : g[j].D = "nonnegative")

\* Lines 170-178: the roots within [-1, 1] (a comparison with nan is
\* false), each with the longitude it belongs to.
valid_plus(g) ==
    SelectSeq([i \in 1..Len(valid(g)) |->
                  [index |-> valid(g)[i], root |-> "plus",
                   kind |-> g[valid(g)[i]].plus]],
              LAMBDA e : e.kind \in {"wrong", "ok"})

valid_minus(g) ==
    SelectSeq([i \in 1..Len(valid(g)) |->
                  [index |-> valid(g)[i], root |-> "minus",
                   kind |-> g[valid(g)[i]].minus]],
              LAMBDA e : e.kind \in {"wrong", "ok"})

\* Lines 179-184: plus, then minus reversed, of which ok keeps the points
\* at the right angle to the sun.
longitudes_kept(g) ==
    SelectSeq(valid_plus(g) \o Reverse(valid_minus(g)),
              LAMBDA e : e.kind = "ok")

SamplerInit ==
    /\ Unbuilt /\ AlgorithmIdle /\ SettingsIdle /\ DialogIdle
    /\ ephem = <<>> /\ samples = <<>> /\ angles = <<>>
    /\ tie = "kept" /\ clock = 1
    /\ grid \in [rot : RotationGrids, lon : LongitudeGrids]
    /\ pc = "sample"

\* set_date lines 75-76: both samplers run, one after the other.
sample ==
    /\ pc = "sample"
    /\ samples' = [rot |-> rotation_kept(grid.rot),
                   lon |-> longitudes_kept(grid.lon)]
    /\ outcome' = "returned"
    /\ pc' = "sampled"
    /\ UNCHANGED <<terminator, refraction, solar_lat, has_polygons, edges,
                   polygons, date, delta, solar_lon, ephem, angles, tie,
                   clock, kept, call, writes, grid, parameters, event,
                   sinks, results, ephem_file, eph, qset, files, mapTool,
                   savedMapTool, checked, visible, cur_location>>

SamplerNext == sample

SamplerSpec == SamplerInit /\ [][SamplerNext]_vars

\* The latitude of a returned longitude-sampler point is arcsin of its
\* root: nan for a root that is nan or outside [-1, 1].
IsNan(e) == e.kind \in {"nan", "outside"}

\* C21: samples that fail a domain check are dropped silently: both
\* samplers return without raising, and no returned point has a nan
\* longitude or latitude.
C21_NoNanReturned ==
    pc = "sampled" =>
        /\ outcome = "returned"
        /\ \A i \in 1..Len(samples.rot) : ~samples.rot[i].nan
        /\ \A i \in 1..Len(samples.lon) : ~IsNan(samples.lon[i])
        /\ \A i \in 1..Len(grid.rot) :
               (~grid.rot[i].nan
                    /\ grid.rot[i].index
                           \notin {Len(grid.rot) \div 2, Len(grid.rot) - 1})
                   => Count(samples.rot, grid.rot[i]) = 1

\* Both samplers dropped failing entries (a nan of the rotation grid that
\* line 122 does not delete, a negative discriminant, a root outside
\* [-1, 1]) and both returned points.
C21_Witness ==
    /\ pc = "sampled"
    /\ samples.rot # <<>> /\ samples.lon # <<>>
    /\ \E i \in 1..Len(grid.rot) :
           /\ grid.rot[i].nan
           /\ grid.rot[i].index \notin {Len(grid.rot) \div 2, Len(grid.rot) - 1}
    /\ \E j \in 1..Len(grid.lon) : grid.lon[j].D = "negative"
    /\ \E j \in 1..Len(grid.lon) : grid.lon[j].plus = "outside"

\* ---------------------------------------------------------------------
\* The plugin around the Terminator class.  Each part below has its own
\* specification, in which no Terminator object is built.

\* The attributes of the object and the inputs of its methods.
built == <<terminator, refraction, solar_lat, has_polygons, edges, polygons,
           date, delta, solar_lon, ephem, samples, angles, tie, clock, kept,
           writes>>

algorithm == <<parameters, event, sinks, results>>
setting == <<ephem_file, eph, qset, files>>
dialog == <<mapTool, savedMapTool, checked, visible, cur_location>>

\* No object, and no input drawn for any of its methods.
Untouched ==
    /\ Unbuilt
    /\ ephem = <<>> /\ samples = <<>> /\ angles = <<>>
    /\ tie = "kept" /\ clock = 1

\* ---------------------------------------------------------------------
\* Settings (src/utils.py), under SettingsSpec.

DEFAULT_EPHEM == "de440s_1990_2040.bsp"

\* The file names a user may have installed or selected.
Names == {DEFAULT_EPHEM, "de421.bsp", "de440.bsp"}

\* self.eph = None; a QgsSettings key never written.
NoEphem == ""
Unset == ""

\* os.path.isfile(self.ephemPath()) for ephem_file = file.
isfile(file, fs) == file \in fs

\* readSettings, called by __init__ at line 62: the persisted name, or the
\* default when none is persisted; the default again, written back, when
\* that file does not exist.
readSettings(persisted, fs) ==
    LET file == IF persisted = Unset THEN DEFAULT_EPHEM ELSE persisted
    IN  IF isfile(file, fs)
        THEN [ephem_file |-> file, qset |-> persisted]
        ELSE [ephem_file |-> DEFAULT_EPHEM, qset |-> DEFAULT_EPHEM]

\* setEphemFile without its first line.
setEphemFile_keeping_cache(file, fs, cache, persisted) ==
    IF isfile(file, fs)
    THEN [eph |-> cache, ephem_file |-> file, qset |-> file,
          returned |-> "True"]
    ELSE [eph |-> cache, ephem_file |-> DEFAULT_EPHEM, qset |-> persisted,
          returned |-> "False"]

\* Lines 119-128.
setEphemFile_on(file, fs, cache, persisted) ==
    IF isfile(file, fs)
    THEN [eph |-> NoEphem, ephem_file |-> file, qset |-> file,
          returned |-> "True"]
    ELSE [eph |-> NoEphem, ephem_file |-> DEFAULT_EPHEM, qset |-> persisted,
          returned |-> "False"]

\* Settings() at line 133: __init__ (lines 58-64) on the files and the
\* persisted setting it finds.
SettingsInit ==
    /\ Untouched /\ GridIdle /\ AlgorithmIdle /\ DialogIdle
    /\ files \in SUBSET Names
    /\ \E persisted \in Names \cup {Unset} :
           /\ ephem_file = readSettings(persisted, files).ephem_file
           /\ qset = readSettings(persisted, files).qset
    /\ eph = NoEphem
    /\ pc = "settings"

\* settings.setEphemFile(file).
setEphemFile ==
    /\ pc = "settings"
    /\ \E file \in Names :
          \E res \in {setEphemFile_on(file, files, eph, qset)} :
             /\ eph' = res.eph
             /\ ephem_file' = res.ephem_file
             /\ qset' = res.qset
             /\ outcome' = res.returned
             /\ call' = [op |-> "setEphemFile", file |-> file, was |-> eph]
    /\ UNCHANGED <<built, pc, grid, algorithm, files, dialog>>

\* settings.ephem(), lines 88-91: load_file raises for a missing file and
\* leaves self.eph as it was.
ephem_called ==
    /\ pc = "settings"
    /\ IF eph # NoEphem
       THEN /\ outcome' = "returned"
            /\ call' = [op |-> "ephem", returned |-> eph, was |-> eph]
            /\ UNCHANGED eph
       ELSE IF isfile(ephem_file, files)
            THEN /\ eph' = ephem_file
                 /\ outcome' = "returned"
                 /\ call' = [op |-> "ephem", returned |-> ephem_file,
                             was |-> eph]
            ELSE /\ outcome' = "FileNotFoundError"
                 /\ call' = [op |-> "ephem", returned |-> NoEphem,
                             was |-> eph]
                 /\ UNCHANGED eph
    /\ UNCHANGED <<built, pc, grid, algorithm, ephem_file, qset, files,
                   dialog>>

\* SettingsWidget.on_installButton_pressed, lines 165-183: a file that is
\* not in the directory yet is copied into it.
on_installButton_pressed ==
    /\ pc = "settings"
    /\ \E basename \in Names \ files :
          /\ files' = files \cup {basename}
          /\ call' = [op |-> "install", file |-> basename, was |-> eph]
    /\ outcome' = "returned"
    /\ UNCHANGED <<built, pc, grid, algorithm, ephem_file, eph, qset, dialog>>

SettingsNext == setEphemFile \/ ephem_called \/ on_installButton_pressed

SettingsSpec == SettingsInit /\ [][SettingsNext]_vars

\* C29: after any sequence of setEphemFile and ephem calls, ephem()
\* returns the ephemeris loaded from the path of the currently selected
\* ephem_file; setEphemFile always clears the cache, and for a file that
\* does not exist it selects the default file, returns False and leaves
\* the persisted setting unwritten.
C29_CacheCoherent ==
    [][/\ (call'.op = "ephem" /\ outcome' = "returned")
           => (call'.returned = ephem_file' /\ eph' = ephem_file')
       /\ call'.op = "setEphemFile"
           => /\ eph' = NoEphem
              /\ ~isfile(call'.file, files)
                     => /\ ephem_file' = DEFAULT_EPHEM
                        /\ outcome' = "False"
                        /\ qset' = qset]_vars

\* ephem() returned the default ephemeris, loaded anew, after a
\* setEphemFile for a missing file fell back to it: the persisted setting
\* still names another file.
C29_Witness ==
    /\ call.op = "ephem" /\ outcome = "returned"
    /\ call.was = NoEphem
    /\ call.returned = DEFAULT_EPHEM
    /\ qset \notin {Unset, ephem_file}

\* ---------------------------------------------------------------------
\* The capture tool of the solar-info dialog (src/infoDialog.py and
\* src/captureCoordinate.py), under DialogSpec.

\* The map tools of the application the user can select, and the dialog's
\* own self.captureCoordinate.
Tools == {"pan", "zoom_in", "zoom_out", "identify"}
CaptureTool == "capture"

\* canvas.mapTool() and self.savedMapTool when they are None.
NoTool == ""

\* self.cur_location when it is None.
NoLocation == ""

\* canvas.setMapTool(tool) for a tool other than the active one: the
\* active tool is deactivated, and CaptureCoordinate.deactivate (lines
\* 25-27 of captureCoordinate.py) emits captureStopped, connected at line
\* 45 to stopCapture, which unchecks the button (line 276).
setMapTool(tool, active, button) ==
    IF tool = active THEN [mapTool |-> active, checked |-> button]
    ELSE [mapTool |-> tool,
          checked |-> IF active = CaptureTool THEN FALSE ELSE button]

\* Lines 61-63 and 251-253: if self.savedMapTool: setMapTool(it), then
\* forget it.
restore(saved, active, button) ==
    IF saved # NoTool
    THEN [mapTool |-> setMapTool(saved, active, button).mapTool,
          checked |-> setMapTool(saved, active, button).checked,
          savedMapTool |-> NoTool]
    ELSE [mapTool |-> active, checked |-> button, savedMapTool |-> saved]

\* SolarInfoDialog.__init__, lines 30-46: no saved tool, the button
\* unchecked, the dock not shown yet, the canvas with whatever tool the
\* user has.
DialogInit ==
    /\ Untouched /\ GridIdle /\ AlgorithmIdle /\ SettingsIdle
    /\ mapTool \in Tools \cup {NoTool}
    /\ savedMapTool = NoTool
    /\ checked = FALSE
    /\ visible = FALSE
    /\ cur_location = NoLocation
    /\ pc = "dialog"

\* The dock widget is shown.
showEvent ==
    /\ pc = "dialog"
    /\ ~visible
    /\ visible' = TRUE
    /\ outcome' = "returned"
    /\ call' = [op |-> "showEvent", tool |-> NoTool]
    /\ UNCHANGED <<built, pc, grid, algorithm, setting, mapTool,
                   savedMapTool, checked, cur_location>>

\* A click on the checkable coordCaptureButton toggles it and runs
\* startCapture (lines 245-253).
startCapture ==
    /\ pc = "dialog"
    /\ visible
    /\ IF ~checked
       THEN /\ savedMapTool' = mapTool
            /\ mapTool' = setMapTool(CaptureTool, mapTool, TRUE).mapTool
            /\ checked' = setMapTool(CaptureTool, mapTool, TRUE).checked
       ELSE \E res \in {restore(savedMapTool, mapTool, FALSE)} :
               /\ savedMapTool' = res.savedMapTool
               /\ mapTool' = res.mapTool
               /\ checked' = res.checked
    /\ outcome' = "returned"
    /\ call' = [op |-> "startCapture", tool |-> NoTool]
    /\ UNCHANGED <<built, pc, grid, algorithm, setting, visible,
                   cur_location>>

\* The user selects a map tool of the application.
tool_selected ==
    /\ pc = "dialog"
    /\ \E tool \in Tools :
          /\ mapTool' = setMapTool(tool, mapTool, checked).mapTool
          /\ checked' = setMapTool(tool, mapTool, checked).checked
          /\ call' = [op |-> "tool_selected", tool |-> tool]
    /\ outcome' = "returned"
    /\ UNCHANGED <<built, pc, grid, algorithm, setting, savedMapTool,
                   visible, cur_location>>

\* Lines 60-65: the dock is closed.
closeEvent ==
    /\ pc = "dialog"
    /\ visible
    /\ \E res \in {restore(savedMapTool, mapTool, checked)} :
          /\ savedMapTool' = res.savedMapTool
          /\ mapTool' = res.mapTool
          /\ checked' = res.checked
    /\ visible' = FALSE
    /\ outcome' = "returned"
    /\ call' = [op |-> "closeEvent", tool |-> NoTool]
    /\ UNCHANGED <<built, pc, grid, algorithm, setting, cur_location>>

\* Lines 255-270: the active capture tool emits capturePoint for a click
\* on the canvas; a point outside the valid range, or one arriving while
\* the dock is hidden or the button unchecked, clears the location.
capturedPoint ==
    /\ pc = "dialog"
    /\ mapTool = CaptureTool
    /\ \E pt \in {"in_range", "out_of_range"} :
          cur_location' = IF pt = "out_of_range" THEN NoLocation
                          ELSE IF visible /\ checked THEN pt
                          ELSE NoLocation
    /\ outcome' = "returned"
    /\ call' = [op |-> "capturedPoint", tool |-> NoTool]
    /\ UNCHANGED <<built, pc, grid, algorithm, setting, mapTool,
                   savedMapTool, checked, visible>>

DialogNext ==
    showEvent \/ startCapture \/ tool_selected \/ closeEvent
        \/ capturedPoint

DialogSpec == DialogInit /\ [][DialogNext]_vars

\* C30: the dialog restores a saved map tool (on unchecking the capture
\* button or on closing the dock) only while its own capture tool is the
\* canvas's active tool: it never replaces a tool the user selected
\* after capture stopped.
C30_RestoresOnlyOverCapture ==
    [][(/\ call'.op \in {"startCapture", "closeEvent"}
        /\ mapTool' # mapTool
        /\ mapTool' # CaptureTool)
           => mapTool = CaptureTool]_vars

\* ---------------------------------------------------------------------
\* DayNightAlgorithm.processAlgorithm (src/daynight.py), under
\* DayNightSpec.  The object's variables hold the Terminator that
\* dayNightLineGeom builds; its refraction is in thousandths of a degree
\* here.

MaxEvents == 2

\* The twilight flags, in the order the loop tests them (lines 269-307),
\* with the names of their features.
TwilightTypes ==
    <<"civil_twilight", "nautical_twilight", "astronomical_twilight", "night">>

TwilightNames ==
    <<"Civil Twilight", "Nautical Twilight", "Astronomical Twilight", "Night">>

\* Lines 196-201: parse_timeseries' result for a time series (-1 events for
\* an increment or duration it rejects), one event otherwise.
Series ==
    { [num_events |-> -1, time_delta |-> 0],
      [num_events |-> 1, time_delta |-> 0],
      [num_events |-> MaxEvents, time_delta |-> 60] }

\* Lines 184-195 and 243-245: the parameters the body reads.
Parameters ==
    { [show_sun |-> f[1], day_night_line |-> f[2], civil_twilight |-> f[3],
       nautical_twilight |-> f[4], astronomical_twilight |-> f[5],
       night |-> f[6], solar_disk |-> f[7],
       num_events |-> e.num_events, time_delta |-> e.time_delta,
       utc |-> 1000] : f \in [1..7 -> BOOLEAN], e \in Series }

\* Lines 204-208: has_polygons.
twilight_output(p) ==
    p.civil_twilight \/ p.nautical_twilight \/ p.astronomical_twilight
        \/ p.night

\* Lines 210-213: sun_width, 0.833 or 0.
sun_width(p) == IF p.solar_disk THEN 833 ELSE 0

\* Lines 224-235: the sinks that are created, empty.
created_sinks(p) ==
    [k \in (IF p.show_sun THEN {"SunOutput"} ELSE {})
              \cup (IF p.day_night_line THEN {"OutputLine"} ELSE {})
              \cup (IF twilight_output(p) THEN {"OutputPolygons"} ELSE {})
        |-> <<>>]

\* Lines 249-250 and the attributes of a feature: what it is, its
\* utc_cur = utc + i*time_delta, and its geometry.
Feature(name, p, i, geom) ==
    [name |-> name, timestamp |-> p.utc + i * p.time_delta, geom |-> geom]

\* Lines 326-339: the polyline of t.edges[0].
dayNightLineGeom(e) == e[1]

\* One pass of the loop with the sun feature added without a test of
\* show_sun.
additions_sun_always(p, i, line, g) ==
    <<[sink |-> "SunOutput", feature |-> Feature("Sun", p, i, "point")]>>
    \o (IF p.day_night_line
        THEN <<[sink |-> "OutputLine",
                feature |-> Feature("Day, Night", p, i, line)]>>
        ELSE <<>>)
    \o Flatten([k \in 1..4 |->
            IF p[TwilightTypes[k]] /\ g[k]
            THEN <<[sink |-> "OutputPolygons",
                    feature |-> Feature(TwilightNames[k], p, i, "polygons")]>>
            ELSE <<>>])

\* Lines 251-307, one pass of the loop: the features it adds and the sink
\* each goes to, in the order of the code.  line is the geometry
\* dayNightLineGeom returned, g[k] whether arrayToGeom's geometry for
\* twilight type k is true (it is clipped to the project's bounds).
additions(p, i, line, g) ==
    (IF p.show_sun
     THEN <<[sink |-> "SunOutput", feature |-> Feature("Sun", p, i, "point")]>>
     ELSE <<>>)
    \o (IF p.day_night_line
        THEN <<[sink |-> "OutputLine",
                feature |-> Feature("Day, Night", p, i, line)]>>
        ELSE <<>>)
    \o Flatten([k \in 1..4 |->
            IF p[TwilightTypes[k]] /\ g[k]
            THEN <<[sink |-> "OutputPolygons",
                    feature |-> Feature(TwilightNames[k], p, i, "polygons")]>>
            ELSE <<>>])

\* sink.addFeature for each addition in turn; a sink that was never
\* created is an unbound local variable.
RECURSIVE written(_, _)
written(s, adds) ==
    IF adds = <<>> THEN [sinks |-> s, outcome |-> "none"]
    ELSE IF Head(adds).sink \notin DOMAIN s
         THEN [sinks |-> s, outcome |-> "UnboundLocalError"]
         ELSE written([s EXCEPT ![Head(adds).sink]
                                    = Append(@, Head(adds).feature)],
                      Tail(adds))

\* Sorted terminators a Terminator(utc_cur, delta, sun_width) may hold:
\* one that does not cross the +-180 meridian, one that crosses it once
\* and one that crosses it twice.
LineCurves ==
    { <<Pt(90000, -60000), Pt(170000, 50000)>>,
      <<Pt(170000, 50000), Pt(-179999, 50000), Pt(-90000, -60000),
        Pt(90000, -60000)>>,
      <<Pt(170000, 50000), Pt(-179999, 50000), Pt(-90000, -60000)>> }

\* For refraction 0 the terminator is a great circle, which goes once
\* round the globe and crosses the meridian once; the circle of refraction
\* 0.833 leaves out both poles while the sub-solar latitude is within
\* 0.833 degrees of the equator, and then crosses it twice or not at all.
Terminators(w) ==
    { t \in LineCurves :
        w = 0 => Len(get_transitions(close_curve(t))) = 1 }

DayNightInit ==
    /\ Untouched /\ GridIdle /\ AlgorithmIdle /\ SettingsIdle /\ DialogIdle
    /\ pc = "algorithm"

\* Lines 183-246: the parameters are read and the sinks created.
processAlgorithm ==
    /\ pc = "algorithm"
    /\ \E p \in Parameters :
          /\ parameters' = p
          /\ IF p.num_events = -1
             THEN /\ outcome' = "QgsProcessingException"
                  /\ pc' = "done"
                  /\ UNCHANGED sinks
             ELSE /\ sinks' = created_sinks(p)
                  /\ pc' = "loop"
                  /\ UNCHANGED outcome
    /\ UNCHANGED <<built, call, grid, event, results, setting, dialog>>

\* Lines 247-307: one pass of the loop.
iteration ==
    /\ pc = "loop"
    /\ event < parameters.num_events
    /\ \E t \in Terminators(sun_width(parameters)),
          g \in [1..4 -> BOOLEAN] :
          \E c \in calc_results(t, sun_width(parameters), 0) :
             \E res \in {written(sinks, additions(parameters, event,
                                       dayNightLineGeom(c.edges), g))} :
                /\ sinks' = res.sinks
                /\ outcome' = res.outcome
                /\ pc' = IF res.outcome = "none" THEN "loop" ELSE "done"
                /\ IF parameters.day_night_line
                   THEN /\ terminator' = t
                        /\ refraction' = sun_width(parameters)
                        /\ edges' = c.edges
                        /\ polygons' = c.polygons
                        /\ has_polygons' = TRUE
                   ELSE UNCHANGED <<terminator, refraction, edges, polygons,
                                    has_polygons>>
    /\ event' = event + 1
    /\ UNCHANGED <<solar_lat, date, delta, solar_lon, ephem, samples, angles,
                   tie, clock, kept, writes, call, grid, parameters,
                   results, setting, dialog>>

\* Lines 309-324: r gets a key for every output that is enabled.
returns ==
    /\ pc = "loop"
    /\ event = parameters.num_events
    /\ results' = (IF parameters.show_sun THEN {"SunOutput"} ELSE {})
                    \cup (IF twilight_output(parameters)
                          THEN {"OutputPolygons"} ELSE {})
                    \cup (IF parameters.day_night_line
                          THEN {"OutputLine"} ELSE {})
    /\ outcome' = "returned"
    /\ pc' = "done"
    /\ UNCHANGED <<built, call, grid, parameters, event, sinks, setting,
                   dialog>>

DayNightNext == processAlgorithm \/ iteration \/ returns

DayNightSpec == DayNightInit /\ [][DayNightNext]_vars

\* The features of a sink (none for a sink that was not created), and
\* how many of them have a given name and the time of step k.
Sink(key) == IF key \in DOMAIN sinks THEN sinks[key] ELSE <<>>

Added(key, name, k) ==
    Cardinality({ j \in 1..Len(Sink(key)) :
                    /\ Sink(key)[j].name = name
                    /\ Sink(key)[j].timestamp
                           = parameters.utc + k * parameters.time_delta })

Rank(name) == CHOOSE k \in 1..4 : TwilightNames[k] = name

\* The outputs the parameters enable.
EnabledOutputs ==
    { key \in {"SunOutput", "OutputLine", "OutputPolygons"} :
        \/ key = "SunOutput" /\ parameters.show_sun
        \/ key = "OutputLine" /\ parameters.day_night_line
        \/ key = "OutputPolygons"
              /\ \E k \in 1..4 : parameters[TwilightTypes[k]] }

\* C25: processAlgorithm with num_events = n visits the steps 0..n-1 in
\* increasing order at time utc + i*time_delta; each step adds exactly one
\* sun feature iff show_sun, exactly one line feature iff day_night_line
\* and at most one polygon feature per enabled twilight type, in the order
\* civil, nautical, astronomical, night; only sinks created for an enabled
\* output are written, and the result has exactly the keys of the enabled
\* outputs.
C25_FeaturesPerStep ==
    (pc \in {"loop", "done"} /\ parameters.num_events # -1) =>
        /\ outcome \in {"none", "returned"}
        /\ event <= parameters.num_events
        /\ DOMAIN sinks = EnabledOutputs
        /\ \A k \in 0..(event - 1) :
               /\ Added("SunOutput", "Sun", k)
                      = IF parameters.show_sun THEN 1 ELSE 0
               /\ Added("OutputLine", "Day, Night", k)
                      = IF parameters.day_night_line THEN 1 ELSE 0
               /\ \A t \in 1..4 :
                      /\ Added("OutputPolygons", TwilightNames[t], k) <= 1
                      /\ ~parameters[TwilightTypes[t]]
                             => Added("OutputPolygons", TwilightNames[t], k) = 0
        /\ Len(Sink("SunOutput")) = IF parameters.show_sun THEN event ELSE 0
        /\ Len(Sink("OutputLine"))
               = IF parameters.day_night_line THEN event ELSE 0
        /\ \A key \in DOMAIN sinks :
               \A i, j \in 1..Len(sinks[key]) :
                  i < j =>
                     \/ sinks[key][i].timestamp < sinks[key][j].timestamp
                     \/ /\ sinks[key][i].timestamp = sinks[key][j].timestamp
                        /\ key = "OutputPolygons"
                        /\ Rank(sinks[key][i].name) < Rank(sinks[key][j].name)
        /\ \A j \in 1..Len(Sink("OutputPolygons")) :
               /\ Sink("OutputPolygons")[j].name \in PointSet(TwilightNames)
               /\ \E k \in 0..(event - 1) :
                      Sink("OutputPolygons")[j].timestamp
                          = parameters.utc + k * parameters.time_delta
        /\ (pc = "done")
               => (outcome = "returned" /\ event = parameters.num_events
                      /\ results = EnabledOutputs)

\* A run of two steps returned with the sun, the line and two twilight
\* types enabled and one disabled; one polygon geometry was empty.
C25_Witness ==
    /\ pc = "done" /\ outcome = "returned"
    /\ parameters.num_events = 2
    /\ parameters.show_sun /\ parameters.day_night_line
    /\ parameters.civil_twilight /\ parameters.night
    /\ ~parameters.nautical_twilight
    /\ Len(Sink("OutputPolygons")) = 3
    /\ results = {"SunOutput", "OutputLine", "OutputPolygons"}

\* C24: dayNightLineGeom builds the line from edges[0] only; for the
\* refractions it is called with (0, or 0.833 with the solar-disk option)
\* edges holds exactly one curve, so that the line contains every point
\* of the terminator.
C24_LineHoldsTerminator ==
    (pc \in {"loop", "done"} /\ has_polygons /\ Sink("OutputLine") # <<>>) =>
        LET line == Sink("OutputLine")[Len(Sink("OutputLine"))].geom
        IN  /\ Len(edges) = 1
            /\ line = edges[1]
            /\ \A i \in 1..Len(terminator) : terminator[i] \in PointSet(line)


====
